---------------------------- MODULE Spec2Model ----------------------------
(***************************************************************************)
(* A model of morseclock-hw: the trigger-text parser, the DutyCycle        *)
(* parser, the sysfs LED resource (SysfsLed), the pause slicing and the    *)
(* runner (app/main) of morseclock-bin, with the time encoder of the       *)
(* morseclock crate.  Texts are sequences of one-character strings.        *)
(***************************************************************************)
EXTENDS Integers, Sequences, FiniteSets, TLC

VARIABLES
    p_input,        \* parser harness: the text handed to parse_trigger
    p_result,       \* parser harness: what parse_trigger did with it
    d_input,        \* duty harness: the argument text handed to DutyCycle::from_str
    d_result,       \* duty harness: the Result of from_str
    ep_brightness,  \* sysfs: text read from <led>/brightness
    ep_max,         \* sysfs: text read from <led>/max_brightness
    ep_active,      \* sysfs: the active trigger mode
    led,            \* the SysfsLed value (NoLed before new and after drop)
    pre,            \* history: endpoint contents when SysfsLed::new was entered
    restore,        \* history: what Drop for SysfsLed did
    pc,             \* position of the main thread
    running,        \* the AtomicBool `running`
    handler_set,    \* ctrlc::set_handler has succeeded
    args,           \* the Args the runner uses
    clock,          \* the Clock iterator: symbols not yet yielded
    break_cfg,      \* (break_duration, break_repeats) of the pause-slice loop
    pause_i,        \* index of the pause-slice loop
    app_result,     \* what app() returns: "Ok" or "Err"
    exit_status,    \* process exit status (NotExited while it runs)
    hist,           \* history of the run, see HistInit
    enc,            \* encoder harness: a time, a format and the symbols collected
    pz              \* pause harness: a pause duration and its (slice, repeats)

parseVars == <<p_input, p_result>>
dutyVars  == <<d_input, d_result>>
fnVars    == <<enc, pz>>
sysVars   == <<ep_brightness, ep_max, ep_active>>
ledVars   == <<led, pre, restore>>
runVars   == <<pc, running, handler_set, args, clock, break_cfg, pause_i, app_result, exit_status, hist>>
vars      == <<parseVars, dutyVars, fnVars, sysVars, ledVars, runVars>>

-----------------------------------------------------------------------------
(* Texts *)

Digits == {"0", "1", "2", "3", "4", "5", "6", "7", "8", "9"}
Lower  == {"a", "b", "c", "d", "e", "f", "g", "h", "i", "j", "k", "l", "m",
           "n", "o", "p", "q", "r", "s", "t", "u", "v", "w", "x", "y", "z"}
Upper  == {"A", "B", "C", "D", "E", "F", "G", "H", "I", "J", "K", "L", "M",
           "N", "O", "P", "Q", "R", "S", "T", "U", "V", "W", "X", "Y", "Z"}

T_none == <<"n", "o", "n", "e">>

\* str::find(ch): index of the first occurrence of ch in s, 0 when there is none
FindChar(s, ch) ==
    IF \E i \in 1..Len(s) : s[i] = ch
    THEN CHOOSE i \in 1..Len(s) : s[i] = ch /\ \A j \in 1..(i-1) : s[j] # ch
    ELSE 0

\* the text from index i on (Rust &s[i..], 1-based here)
From(s, i) == SubSeq(s, i, Len(s))

-----------------------------------------------------------------------------
(* parser::parse_trigger *)

None       == [tag |-> "None", val |-> <<>>]
Some(v)    == [tag |-> "Some", val |-> v]
Panic      == [tag |-> "Panic", val |-> <<>>]

\* the closure of trigger_char1 negated: the characters a trigger name is made of
IsTriggerChar(c) == c \in Digits \cup Lower \cup Upper \cup {"-"}

\* trigger_char1 = split_at_position1 of nom's streaming flavour on &str:
\* Error when the first character already ends the run, Incomplete when no
\* character of the input ends it, otherwise the run and the rest.
trigger_char1(input) ==
    LET stops == {i \in 1..Len(input) : ~IsTriggerChar(input[i])}
        first == IF stops = {} THEN 0
                 ELSE CHOOSE i \in stops : \A j \in stops : i <= j
    IN  IF stops = {} THEN [kind |-> "Incomplete", out |-> <<>>, rest |-> <<>>]
        ELSE IF first = 1 THEN [kind |-> "Error", out |-> <<>>, rest |-> input]
        ELSE [kind |-> "Ok", out |-> SubSeq(input, 1, first - 1),
              rest |-> From(input, first)]

\* delimited(tag("["), trigger_char1, tag("]")) on a text that starts with "["
Delimited(input) ==
    LET inner == trigger_char1(From(input, 2))
    IN  IF inner.kind # "Ok" THEN inner
        ELSE IF Len(inner.rest) >= 1 /\ inner.rest[1] = "]"
             THEN [kind |-> "Ok", out |-> inner.out, rest |-> From(inner.rest, 2)]
             ELSE [kind |-> "Error", out |-> <<>>, rest |-> inner.rest]

\* parse_trigger: Finish::finish panics on Err::Incomplete
parse_trigger(input) ==
    LET pos == FindChar(input, "[")
        r   == IF pos = 0 THEN [kind |-> "Error", out |-> <<>>, rest |-> <<>>]
               ELSE Delimited(From(input, pos))
    IN  IF pos = 0 THEN None
        ELSE IF r.kind = "Incomplete" THEN Panic
        ELSE IF r.kind = "Ok" /\ r.out # T_none THEN Some(r.out)
        ELSE None

\* the reference reading of the contract: first "[", first "]" after it,
\* the text between them unless it is "none"
RefTrigger(input) ==
    LET pos   == FindChar(input, "[")
        after == IF pos = 0 THEN <<>> ELSE From(input, pos + 1)
        close == FindChar(after, "]")
        tok   == IF close = 0 THEN <<>> ELSE SubSeq(after, 1, close - 1)
    IN  IF pos = 0 \/ close = 0 \/ tok = T_none THEN None ELSE Some(tok)

-----------------------------------------------------------------------------
(* DutyCycle::from_str *)

\* An f64 is modelled as NaN, an infinity, or a finite number of thousandths.
F64(k)    == [kind |-> "finite", milli |-> k]
F64NaN    == [kind |-> "nan", milli |-> 0]
F64Inf    == [kind |-> "inf", milli |-> 0]
F64NegInf == [kind |-> "neginf", milli |-> 0]

\* IEEE-754 comparisons: every comparison with NaN is false
F64Le(a, b) ==
    /\ a.kind # "nan" /\ b.kind # "nan"
    /\ \/ a.kind = "neginf"
       \/ b.kind = "inf"
       \/ a.kind = "finite" /\ b.kind = "finite" /\ a.milli <= b.milli
F64Gt(a, b) ==
    /\ a.kind # "nan" /\ b.kind # "nan"
    /\ ~F64Le(a, b)

\* An argument text is modelled by what str::parse::<f64> makes of it: a
\* decimal literal, "NaN", "inf", "-inf", or text that is no float at all.
ParseF64(s) ==
    CASE s.kind = "decimal" -> [ok |-> TRUE, value |-> F64(s.milli)]
      [] s.kind = "nan"     -> [ok |-> TRUE, value |-> F64NaN]
      [] s.kind = "inf"     -> [ok |-> TRUE, value |-> F64Inf]
      [] s.kind = "neginf"  -> [ok |-> TRUE, value |-> F64NegInf]
      [] OTHER              -> [ok |-> FALSE, value |-> F64NaN]

DutyOk(v)  == [tag |-> "Ok", value |-> v]
DutyErr(e) == [tag |-> e, value |-> F64NaN]

DutyCycle_from_str(s) ==
    LET p == ParseF64(s)
    IN  IF ~p.ok THEN DutyErr("ParseFloat")
        ELSE IF F64Le(p.value, F64(0)) \/ F64Gt(p.value, F64(1000))
             THEN DutyErr("InvalidDutyCycle")
        ELSE DutyOk(p.value)

-----------------------------------------------------------------------------
(* Numbers as text: str::trim, str::parse::<u32>, format_args!("{}", u32) *)

DigitSeq == <<"0", "1", "2", "3", "4", "5", "6", "7", "8", "9">>
DigitVal(c) == (CHOOSE i \in 1..Len(DigitSeq) : DigitSeq[i] = c) - 1

\* char::is_whitespace: the characters with the Unicode property White_Space.
\* A character that cannot be written in a string of this module stands as
\* its code point.
WhiteSpace ==
    {"\t", "\n", "U+000B", "\f", "\r", " ", "U+0085", "U+00A0", "U+1680",
     "U+2000", "U+2001", "U+2002", "U+2003", "U+2004", "U+2005", "U+2006", "U+2007",
     "U+2008", "U+2009", "U+200A", "U+2028", "U+2029", "U+202F", "U+205F", "U+3000"}

IsSpace(c) == c \in WhiteSpace

RECURSIVE TrimStart(_)
TrimStart(s) ==
    IF s # <<>> /\ IsSpace(Head(s)) THEN TrimStart(Tail(s)) ELSE s

RECURSIVE TrimEnd(_)
TrimEnd(s) ==
    IF s # <<>> /\ IsSpace(s[Len(s)]) THEN TrimEnd(SubSeq(s, 1, Len(s) - 1)) ELSE s

Trim(s) == TrimEnd(TrimStart(s))

RECURSIVE DigitsValue(_)
DigitsValue(s) ==
    IF s = <<>> THEN 0
    ELSE DigitsValue(SubSeq(s, 1, Len(s) - 1)) * 10 + DigitVal(s[Len(s)])

\* str::parse::<u32>: an optional "+", then one or more decimal digits.
\* (The texts of this model stay far below u32::MAX, so overflow is not modelled.)
ParseU32(s) ==
    LET body == IF s # <<>> /\ Head(s) = "+" THEN Tail(s) ELSE s
    IN  IF body # <<>> /\ \A i \in 1..Len(body) : body[i] \in Digits
        THEN [ok |-> TRUE, value |-> DigitsValue(body)]
        ELSE [ok |-> FALSE, value |-> 0]

RECURSIVE FormatU32(_)
FormatU32(n) ==
    IF n < 10 THEN <<DigitSeq[n + 1]>>
    ELSE FormatU32(n \div 10) \o <<DigitSeq[(n % 10) + 1]>>

-----------------------------------------------------------------------------
(* The device control surface: what the three sysfs attributes of an LED do *)

T_cpu3       == <<"c", "p", "u", "3">>
T_usb_gadget == <<"u", "s", "b", "-", "g", "a", "d", "g", "e", "t">>
T_hidpp_full == <<"h", "i", "d", "p", "p", "_", "b", "a", "t", "t", "e", "r", "y",
                  "_", "0", "-", "f", "u", "l", "l">>

\* the trigger modes the device offers, in the order the attribute lists them
TriggerModes == <<T_none, T_cpu3, T_usb_gadget, T_hidpp_full>>

ModeSet == {TriggerModes[i] : i \in 1..Len(TriggerModes)}

RECURSIVE TriggerList(_, _)
TriggerList(modes, active) ==
    IF modes = <<>> THEN <<>>
    ELSE (IF Head(modes) = active THEN <<"[">> \o Head(modes) \o <<"]">>
          ELSE Head(modes))
         \o (IF Tail(modes) = <<>> THEN <<>> ELSE <<" ">>)
         \o TriggerList(Tail(modes), active)

\* reading <led>/trigger: every mode, the active one in brackets
ReadTrigger(active) == TriggerList(TriggerModes, active) \o <<"\n">>

\* writing <led>/brightness: the attribute takes the number written, capped at
\* max_brightness, and reads back as that number and a newline
StoreBrightness(text, max) ==
    LET v == ParseU32(Trim(text)).value
    IN  FormatU32(IF v > max THEN max ELSE v) \o <<"\n">>

-----------------------------------------------------------------------------
(* SysfsLed *)

NoLed == [open |-> FALSE, max_brightness |-> 0, old_brightness |-> 0, trigger |-> None]

\* the places where SysfsLed::new can be failed by the file system
NewFailures == {"none", "read_trigger", "read_max_brightness", "read_brightness",
                "open_trigger", "write_trigger", "open_brightness"}


\* the failures of SysfsLed::new before "none" has been written, and after
EarlyFailures == {"read_trigger", "read_max_brightness", "read_brightness",
                  "open_trigger", "write_trigger"}
LateFailures  == {"open_brightness"}

\* SysfsLed::new up to write_trigger(&mut trigger_file, "none")?: the three
\* reads, the open of the trigger file and the write; the Result so far and
\* the active trigger mode afterwards
SysfsLed_new_write(fail, active) ==
    IF fail \in EarlyFailures
    THEN [result |-> "Err", active |-> active]
    ELSE [result |-> "Ok", active |-> T_none]

\* SysfsLed::new after the write: Ok(Self { .. }) from the texts read before
\* it, with the parse of the two numbers, parse_trigger and the open of the
\* brightness file
SysfsLed_new_build(fail, brightness, max, trigger) ==
    LET maxv == ParseU32(Trim(max))
        oldv == ParseU32(Trim(brightness))
        trig == parse_trigger(trigger)
    IN  IF ~maxv.ok \/ ~oldv.ok THEN [result |-> "Err", led |-> NoLed]
        ELSE IF trig = Panic THEN [result |-> "Panic", led |-> NoLed]
        ELSE IF fail \in LateFailures THEN [result |-> "Err", led |-> NoLed]
        ELSE [result |-> "Ok",
              led |-> [open |-> TRUE, max_brightness |-> maxv.value,
                       old_brightness |-> oldv.value, trigger |-> trig]]

\* SysfsLed::new: the result, the SysfsLed and the active trigger mode it leaves
SysfsLed_new(fail, brightness, max, active) ==
    LET w == SysfsLed_new_write(fail, active)
        b == SysfsLed_new_build(fail, brightness, max, ReadTrigger(active))
    IN  IF w.result # "Ok"
        THEN [result |-> "Err", led |-> NoLed, active |-> w.active]
        ELSE [result |-> b.result, led |-> b.led, active |-> w.active]

\* SysfsLed::set: the Result and the brightness attribute afterwards
SysfsLed_set(l, value, ok, brightness) ==
    IF ok THEN [result |-> "Ok",
                brightness |-> StoreBrightness(FormatU32(value), l.max_brightness)]
    ELSE [result |-> "Err", brightness |-> brightness]

SysfsLed_on(l, ok, brightness)  == SysfsLed_set(l, l.max_brightness, ok, brightness)
SysfsLed_off(l, ok, brightness) == SysfsLed_set(l, 0, ok, brightness)

\* SysfsLed::reset_trigger: the Result and the active trigger mode afterwards
SysfsLed_reset_trigger(l, ok, active) ==
    IF l.trigger.tag = "Some"
    THEN IF ok /\ l.trigger.val \in ModeSet
         THEN [result |-> "Ok", active |-> l.trigger.val, wrote |-> TRUE]
         ELSE [result |-> "Err", active |-> active, wrote |-> TRUE]
    ELSE [result |-> "Ok", active |-> active, wrote |-> FALSE]

NotRestored == [brightness |-> "no", trigger |-> "no", panicked |-> FALSE]

\* Drop for SysfsLed: set(old_brightness).unwrap(); reset_trigger().unwrap().
\* An unwrap of an Err panics and the rest of drop does not run.
SysfsLed_drop(l, okb, okt, brightness, active) ==
    LET b == SysfsLed_set(l, l.old_brightness, okb, brightness)
        t == SysfsLed_reset_trigger(l, okt, active)
    IN  IF b.result # "Ok"
        THEN [brightness |-> b.brightness, active |-> active,
              restore |-> [brightness |-> "failed", trigger |-> "no", panicked |-> TRUE]]
        ELSE [brightness |-> b.brightness, active |-> t.active,
              restore |-> [brightness |-> "ok",
                           trigger |-> IF ~t.wrote THEN "no"
                                       ELSE IF t.result = "Ok" THEN "ok" ELSE "failed",
                           panicked |-> t.result # "Ok"]]

-----------------------------------------------------------------------------
(* The time encoder (Clock of the morseclock crate) *)

\* International Morse code of a decimal digit, as Short and Long pulses
MorseDigit(d) ==
    [i \in 1..5 |->
        IF d <= 5 THEN (IF i <= d THEN "Short" ELSE "Long")
        ELSE (IF i <= d - 5 THEN "Long" ELSE "Short")]

\* a 12-hour reduction that shows midnight and noon as 0
DisplayHourModulo(hour, format) ==
    IF format = "Hour12" THEN hour % 12 ELSE hour

DisplayHour(hour, format) ==
    IF format = "Hour12" THEN ((hour + 11) % 12) + 1 ELSE hour

\* the hour without a leading zero, the minute with two digits
HourDigits(h)   == IF h >= 10 THEN <<h \div 10, h % 10>> ELSE <<h>>
MinuteDigits(m) == <<m \div 10, m % 10>>

RECURSIVE MorseDigits(_)
MorseDigits(ds) ==
    IF ds = <<>> THEN <<>> ELSE MorseDigit(Head(ds)) \o MorseDigits(Tail(ds))

\* Clock::new(hour, minute, format).into_iter(), as the list it yields
Encode(hour, minute, format) ==
    MorseDigits(HourDigits(DisplayHour(hour, format)))
        \o <<"Break">>
        \o MorseDigits(MinuteDigits(minute))

-----------------------------------------------------------------------------
(* Values the variables hold while the part they belong to is not running *)

NotRun    == [tag |-> "NotRun", val |-> <<>>]
NoDuty    == [kind |-> "unset", milli |-> 0]
DutyNotRun == [tag |-> "NotRun", value |-> F64NaN]
NoPre     == [taken |-> FALSE, brightness |-> <<>>, active |-> <<>>]
NoClock   == <<>>
NoArgs    == [break_duration |-> 0, user |-> FALSE]
NoBreak   == [duration |-> 0, repeats |-> 0]
NotExited == "running"
NoEnc     == [hour |-> 0, minute |-> 0, format |-> "none", out |-> <<>>]
NoPz      == [target |-> 0, done |-> FALSE, result |-> NoBreak]

\* Format: enumeration {Hour24, Hour12}
Formats == {"Hour12", "Hour24"}

HistInit ==
    [writes        |-> 0,       \* successful brightness writes since new, capped
     cancel_pc     |-> "",      \* where the main thread was when the flag was first cleared
     begun_after   |-> 0,       \* symbol actions begun since the flag was cleared
     slices_after  |-> 0,       \* pause slices finished since the flag was cleared
     cycles_after  |-> 0,       \* cycles started since the flag was cleared
     pulse_failed  |-> FALSE,   \* an on-write or off-write of a pulse has failed
     after_failure |-> 0,       \* symbol actions, slices and cycles begun since that failure
     cycle         |-> <<>>,    \* this cycle's device writes ("on", "off") and Breaks, in order
     hour_pulses   |-> 0,       \* pulses the hour group of this cycle's time has
     acquired      |-> FALSE,   \* SysfsLed::new has returned Ok
     last_write    |-> <<>>,    \* the brightness the runner's last successful pulse write stored
     alternates    |-> TRUE,    \* those writes stored max_brightness, 0, max_brightness, 0, ..
     sampled       |-> <<>>,    \* <<hour, minute>> of Local::now(), until the cycle's first symbol is taken
     bad_config    |-> FALSE,   \* args() was handed a duty cycle outside (0, 1] or a bad number
     format        |-> "Hour12"] \* the format the operator wants configured for this run

ParseIdle == p_input = <<>> /\ p_result = NotRun
DutyIdle  == d_input = NoDuty /\ d_result = DutyNotRun
FnIdle    == enc = NoEnc /\ pz = NoPz
SysIdle   == ep_brightness = <<"0", "\n">> /\ ep_max = <<"1", "\n">> /\ ep_active = T_none
LedIdle   == led = NoLed /\ pre = NoPre /\ restore = NotRestored
RunIdle   ==
    /\ pc = "idle" /\ running = TRUE /\ handler_set = FALSE /\ args = NoArgs
    /\ clock = NoClock /\ break_cfg = NoBreak /\ pause_i = 0
    /\ app_result = "none" /\ exit_status = NotExited /\ hist = HistInit

-----------------------------------------------------------------------------
(* SpecParse: parse_trigger applied to texts *)

MaxInputLen == 5

ParseAlphabet == {"[", "]", "a", "3", "-", "_", " "}

\* the inputs of parser::tests
TestInputs ==
    {<<"[", "n", "o", "n", "e", "]">>,
     <<"[", "u", "s", "b", "-", "g", "a", "d", "g", "e", "t", "]">>,
     <<"[", "c", "p", "u", "3", "]">>,
     <<"s", "o", "m", "e", " ", "o", "t", "h", "e", "r">>,
     <<"s", "o", "m", "e", " ", "o", "t", "h", "e", "r", " ", "[", "n", "o", "n", "e", "]">>,
     <<"s", "o", "m", "e", " ", "[", "p", "r", "o", "c", "e", "s", "s", "o", "r", "-", "1", "4", "x", "]", " ", "b", "a", "n", "a", "n", "a">>}

InitParse ==
    /\ ParseIdle /\ DutyIdle /\ FnIdle /\ SysIdle /\ LedIdle /\ RunIdle

TypeChar(c) ==
    /\ p_result = NotRun
    /\ Len(p_input) < MaxInputLen
    /\ p_input' = Append(p_input, c)
    /\ UNCHANGED <<p_result, dutyVars, fnVars, sysVars, ledVars, runVars>>

LoadTestInput(t) ==
    /\ p_result = NotRun
    /\ p_input = <<>>
    /\ p_input' = t
    /\ UNCHANGED <<p_result, dutyVars, fnVars, sysVars, ledVars, runVars>>

ParseTrigger ==
    /\ p_result = NotRun
    /\ p_result' = parse_trigger(p_input)
    /\ UNCHANGED <<p_input, dutyVars, fnVars, sysVars, ledVars, runVars>>

NextParse ==
    \/ \E c \in ParseAlphabet : TypeChar(c)
    \/ \E t \in TestInputs : LoadTestInput(t)
    \/ ParseTrigger

SpecParse == InitParse /\ [][NextParse]_vars

-----------------------------------------------------------------------------
(* SpecDuty: DutyCycle::from_str applied to argument texts *)

DutyRange == 1500

DutyInputs ==
    {[kind |-> "decimal", milli |-> k] : k \in (0 - DutyRange)..DutyRange}
    \cup {[kind |-> k, milli |-> 0] : k \in {"nan", "inf", "neginf", "garbage"}}

InitDuty ==
    /\ d_input \in DutyInputs /\ d_result = DutyNotRun
    /\ ParseIdle /\ FnIdle /\ SysIdle /\ LedIdle /\ RunIdle

ParseDuty ==
    /\ d_result = DutyNotRun
    /\ d_result' = DutyCycle_from_str(d_input)
    /\ UNCHANGED <<d_input, parseVars, fnVars, sysVars, ledVars, runVars>>

NextDuty == ParseDuty

SpecDuty == InitDuty /\ [][NextDuty]_vars

-----------------------------------------------------------------------------
(* SpecLed: a caller of the library that acquires the LED, calls on, off and
   set in any order, and lets the SysfsLed go out of scope *)

MaxSetValue == 3
HistCap == 3

Bump(n) == IF n < HistCap THEN n + 1 ELSE n

BrightnessTexts == {<<"0", "\n">>, <<"1", "\n">>, <<"2", "5", "5", "\n">>, <<"o", "f", "f", "\n">>}
MaxTexts        == {<<"1", "\n">>, <<"2", "5", "5", "\n">>, <<"\n">>}

\* a real LED never shows a brightness above its max_brightness
DeviceStates ==
    {d \in [brightness : BrightnessTexts, max : MaxTexts, active : ModeSet] :
        LET b == ParseU32(Trim(d.brightness))
            m == ParseU32(Trim(d.max))
        IN  (b.ok /\ m.ok) => b.value <= m.value}

InitLed ==
    /\ \E d \in DeviceStates :
        /\ ep_brightness = d.brightness
        /\ ep_max = d.max
        /\ ep_active = d.active
    /\ pc = "lib_new" /\ running = TRUE /\ handler_set = FALSE /\ args = NoArgs
    /\ clock = NoClock /\ break_cfg = NoBreak /\ pause_i = 0
    /\ app_result = "none" /\ exit_status = NotExited /\ hist = HistInit
    /\ ParseIdle /\ DutyIdle /\ FnIdle /\ LedIdle

\* let led = SysfsLed::new(path)
LibNew(fail) ==
    /\ pc = "lib_new"
    /\ LET r == SysfsLed_new(fail, ep_brightness, ep_max, ep_active)
       IN  /\ pre' = [taken |-> TRUE, brightness |-> ep_brightness, active |-> ep_active]
           /\ ep_active' = r.active
           /\ led' = r.led
           /\ pc' = IF r.result = "Ok" THEN "lib_live" ELSE "lib_done"
           /\ app_result' = r.result
           /\ hist' = [hist EXCEPT !.acquired = (r.result = "Ok")]
    /\ UNCHANGED <<parseVars, dutyVars, fnVars, ep_brightness, ep_max, restore, running,
                   handler_set, args, clock, break_cfg, pause_i, exit_status>>

LibWrite(r) ==
    /\ ep_brightness' = r.brightness
    /\ hist' = [hist EXCEPT !.writes = IF r.result = "Ok" THEN Bump(@) ELSE @]
    /\ UNCHANGED <<parseVars, dutyVars, fnVars, ep_max, ep_active, ledVars, pc, running,
                   handler_set, args, clock, break_cfg, pause_i, app_result, exit_status>>

\* led.on()
LibOn(ok) ==
    /\ pc = "lib_live"
    /\ LibWrite(SysfsLed_on(led, ok, ep_brightness))

\* led.off()
LibOff(ok) ==
    /\ pc = "lib_live"
    /\ LibWrite(SysfsLed_off(led, ok, ep_brightness))

\* led.set(value)
LibSet(value, ok) ==
    /\ pc = "lib_live"
    /\ LibWrite(SysfsLed_set(led, value, ok, ep_brightness))

\* led goes out of scope
LibDrop(okb, okt) ==
    /\ pc = "lib_live"
    /\ LET r == SysfsLed_drop(led, okb, okt, ep_brightness, ep_active)
       IN  /\ ep_brightness' = r.brightness
           /\ ep_active' = r.active
           /\ restore' = r.restore
    /\ led' = [led EXCEPT !.open = FALSE]
    /\ pc' = "lib_done"
    /\ UNCHANGED <<parseVars, dutyVars, fnVars, ep_max, pre, running, handler_set, args,
                   clock, break_cfg, pause_i, app_result, exit_status, hist>>

NextLed ==
    \/ \E f \in NewFailures : LibNew(f)
    \/ \E ok \in BOOLEAN : LibOn(ok)
    \/ \E ok \in BOOLEAN : LibOff(ok)
    \/ \E v \in 0..MaxSetValue, ok \in BOOLEAN : LibSet(v, ok)
    \/ \E okb \in BOOLEAN, okt \in BOOLEAN : LibDrop(okb, okt)

SpecLed == InitLed /\ [][NextLed]_vars

-----------------------------------------------------------------------------
(* Spec: the process morseclock-hw, main() and app() of hwclock.rs, with the
   ctrlc handler thread and the operator's interrupt *)

SliceTarget == 200

\* a pause that is slept through in one piece
approximate_pause_unsliced(target_duration) ==
    [duration |-> target_duration, repeats |-> 1]

\* slices of exactly SliceTarget, the remainder of the pause dropped
approximate_pause_fixed(target_duration) ==
    IF target_duration <= SliceTarget
    THEN [duration |-> target_duration, repeats |-> 1]
    ELSE [duration |-> SliceTarget, repeats |-> target_duration \div SliceTarget]

approximate_pause_repeats(target_duration) ==
    IF target_duration <= SliceTarget
    THEN [duration |-> target_duration, repeats |-> 1]
    ELSE LET approx_repeats        == target_duration \div SliceTarget
             approx_break_duration == target_duration \div approx_repeats
         IN  [duration |-> approx_break_duration,
              repeats  |-> target_duration \div approx_break_duration]

\* what the environment hands the process
PauseChoices == {150, 700}
ArgDuties    == {[kind |-> "decimal", milli |-> 250], [kind |-> "decimal", milli |-> 0],
                 [kind |-> "nan", milli |-> 0], [kind |-> "garbage", milli |-> 0]}
Hours        == 0..23
Minutes      == {0, 5, 37, 59}
RunDevices   ==
    {d \in DeviceStates :
        /\ d.brightness \in {<<"1", "\n">>, <<"o", "f", "f", "\n">>}
        /\ d.max = <<"2", "5", "5", "\n">>
        /\ d.active \in {T_none, T_usb_gadget}}

Init ==
    /\ \E d \in RunDevices :
        /\ ep_brightness = d.brightness
        /\ ep_max = d.max
        /\ ep_active = d.active
    /\ pc = "args" /\ running = TRUE /\ handler_set = FALSE /\ args = NoArgs
    /\ clock = NoClock /\ break_cfg = NoBreak /\ pause_i = 0
    /\ app_result = "none" /\ exit_status = NotExited
    /\ hist \in {[HistInit EXCEPT !.format = f] : f \in Formats}
    /\ ParseIdle /\ DutyIdle /\ FnIdle /\ LedIdle

Cancelled == hist.cancel_pc # ""

\* the history of a cycle that has been abandoned
Abandon(h) == [h EXCEPT !.cycle = <<>>, !.hour_pulses = 0, !.sampled = <<>>]

\* app() returns r: its locals are dropped, led among them
Return(r) ==
    /\ app_result' = r
    /\ pc' = "drop"

\* a duty cycle argument that stands for a number in (0, 1]
ValidDuty(d) == d.kind = "decimal" /\ 0 < d.milli /\ d.milli <= 1000

\* args(): -h prints the help and exits 0; an argument that does not parse
\* makes app() print the error and exit 1
AppArgs(help, numbers_ok, long_duty, short_duty, pause, user) ==
    /\ pc = "args"
    /\ LET l == DutyCycle_from_str(long_duty)
           s == DutyCycle_from_str(short_duty)
       IN  IF help
           THEN pc' = "exit_0" /\ exit_status' = exit_status /\ args' = args
           ELSE IF ~numbers_ok \/ l.tag # "Ok" \/ s.tag # "Ok"
           THEN pc' = "exit_1" /\ exit_status' = exit_status /\ args' = args
           ELSE /\ pc' = "new" /\ exit_status' = exit_status
                /\ args' = [break_duration |-> pause, user |-> user]
    /\ hist' = [hist EXCEPT !.bad_config =
                    ~help /\ (~numbers_ok \/ ~ValidDuty(long_duty) \/ ~ValidDuty(short_duty))]
    /\ UNCHANGED <<parseVars, dutyVars, fnVars, sysVars, ledVars, running, handler_set,
                   clock, break_cfg, pause_i, app_result>>

\* let mut led = lib::SysfsLed::new(&args.path)?; as far as its write of
\* "none" to the trigger
AppNew(fail) ==
    /\ pc = "new"
    /\ LET w == SysfsLed_new_write(fail, ep_active)
       IN  /\ pre' = [taken |-> TRUE, brightness |-> ep_brightness, active |-> ep_active]
           /\ ep_active' = w.active
           /\ IF w.result = "Ok"
              THEN pc' = "new_build" /\ UNCHANGED <<app_result, exit_status>>
              ELSE pc' = "exit_1" /\ app_result' = "Err" /\ exit_status' = exit_status
    /\ UNCHANGED <<parseVars, dutyVars, fnVars, ep_brightness, ep_max, led, restore, running,
                   handler_set, args, clock, break_cfg, pause_i, hist>>

\* the rest of SysfsLed::new, from the texts it has read: the trigger text
\* was read before the write, when pre.active was the active mode
AppNewBuild(fail) ==
    /\ pc = "new_build"
    /\ LET r == SysfsLed_new_build(fail, ep_brightness, ep_max, ReadTrigger(pre.active))
       IN  /\ led' = r.led
           /\ hist' = [hist EXCEPT !.acquired = (r.result = "Ok")]
           /\ CASE r.result = "Ok"  -> pc' = "privdrop" /\ app_result' = app_result
                [] r.result = "Err" -> pc' = "exit_1" /\ app_result' = "Err"
                [] OTHER            -> pc' = "exit_101" /\ app_result' = "Panic"
           /\ exit_status' = exit_status
    /\ UNCHANGED <<parseVars, dutyVars, fnVars, sysVars, pre, restore, running,
                   handler_set, args, clock, break_cfg, pause_i>>

\* if let Some(user) = args.user { PrivDrop::default().user(user).apply()?; }
AppPrivDrop(ok) ==
    /\ pc = "privdrop"
    /\ IF args.user /\ ~ok
       THEN Return("Err") /\ args' = args
       ELSE pc' = "set_handler" /\ args' = [args EXCEPT !.user = FALSE] /\ app_result' = app_result
    /\ UNCHANGED <<parseVars, dutyVars, fnVars, sysVars, ledVars, running, handler_set,
                   clock, break_cfg, pause_i, exit_status, hist>>

\* approximate_pause_repeats(args.break_duration); ctrlc::set_handler(..)?;
AppSetHandler(ok) ==
    /\ pc = "set_handler"
    /\ break_cfg' = approximate_pause_repeats(args.break_duration)
    /\ IF ok
       THEN pc' = "outer" /\ handler_set' = TRUE /\ app_result' = app_result
       ELSE Return("Err") /\ handler_set' = handler_set
    /\ UNCHANGED <<parseVars, dutyVars, fnVars, sysVars, ledVars, running, args, clock,
                   pause_i, exit_status, hist>>

\* 'outer: while running.load(..) { let now = Local::now(); .. Clock::new(hour, minute, Format::Hour12)
AppOuter(hour, minute) ==
    /\ pc = "outer"
    /\ IF running
       THEN /\ pc' = "sym"
            /\ clock' = Encode(hour, minute, "Hour12")
            /\ hist' = [hist EXCEPT
                   !.cycle = <<>>,
                   !.sampled = <<hour, minute>>,
                   !.hour_pulses = 5 * Len(HourDigits(DisplayHour(hour, "Hour12"))),
                   !.cycles_after = IF Cancelled THEN Bump(@) ELSE @,
                   !.after_failure = IF hist.pulse_failed THEN Bump(@) ELSE @]
            /\ app_result' = app_result
       ELSE Return("Ok") /\ clock' = NoClock /\ hist' = Abandon(hist)
    /\ UNCHANGED <<parseVars, dutyVars, fnVars, sysVars, ledVars, running, handler_set, args,
                   break_cfg, pause_i, exit_status>>

\* a symbol loop that sleeps through a Break without having polled the flag
AppSymBreakUnpolled ==
    /\ pc = "sym"
    /\ IF clock = <<>>
       THEN pc' = "pause" /\ pause_i' = 0 /\ UNCHANGED <<clock, app_result, hist>>
       ELSE /\ pause_i' = pause_i
            /\ clock' = IF ~running /\ Head(clock) # "Break" THEN NoClock ELSE Tail(clock)
            /\ IF ~running /\ Head(clock) # "Break"
               THEN Return("Ok") /\ hist' = Abandon(hist)
               ELSE /\ app_result' = app_result
                    /\ IF Head(clock) = "Break"
                       THEN /\ pc' = "break_sleep"
                            /\ hist' = [hist EXCEPT
                                   !.cycle = Append(@, "Break"),
                                   !.begun_after = IF Cancelled THEN Bump(@) ELSE @,
                                   !.after_failure = IF hist.pulse_failed THEN Bump(@) ELSE @]
                       ELSE pc' = "blink_on" /\ hist' = [hist EXCEPT !.sampled = <<>>]
    /\ UNCHANGED <<parseVars, dutyVars, fnVars, sysVars, ledVars, running, handler_set, args,
                   break_cfg, exit_status>>

\* a symbol loop that blinks a Break like a pulse
AppSymBreakBlinks ==
    /\ pc = "sym"
    /\ IF clock = <<>>
       THEN pc' = "pause" /\ pause_i' = 0 /\ UNCHANGED <<clock, app_result, hist>>
       ELSE /\ pause_i' = pause_i
            /\ clock' = IF ~running THEN NoClock ELSE Tail(clock)
            /\ IF ~running
               THEN Return("Ok") /\ hist' = Abandon(hist)
               ELSE /\ pc' = "blink_on" /\ app_result' = app_result
                    /\ hist' = [hist EXCEPT !.sampled = <<>>]
    /\ UNCHANGED <<parseVars, dutyVars, fnVars, sysVars, ledVars, running, handler_set, args,
                   break_cfg, exit_status>>

\* for sym in clock { if !running.load(..) { break 'outer; } match sym { .. } }
AppSym ==
    /\ pc = "sym"
    /\ IF clock = <<>>
       THEN pc' = "pause" /\ pause_i' = 0 /\ UNCHANGED <<clock, app_result, hist>>
       ELSE /\ pause_i' = pause_i
            /\ clock' = IF ~running THEN NoClock ELSE Tail(clock)
            /\ IF ~running
               THEN Return("Ok") /\ hist' = Abandon(hist)
               ELSE /\ app_result' = app_result
                    /\ IF Head(clock) = "Break"
                       THEN /\ pc' = "break_sleep"
                            /\ hist' = [hist EXCEPT
                                   !.cycle = Append(@, "Break"),
                                   !.begun_after = IF Cancelled THEN Bump(@) ELSE @,
                                   !.after_failure = IF hist.pulse_failed THEN Bump(@) ELSE @]
                       ELSE pc' = "blink_on" /\ hist' = [hist EXCEPT !.sampled = <<>>]
    /\ UNCHANGED <<parseVars, dutyVars, fnVars, sysVars, ledVars, running, handler_set, args,
                   break_cfg, exit_status>>

\* the brightness attribute after a write of the value v
Level(v) == FormatU32(v) \o <<"\n">>

\* a stored brightness that continues max_brightness, 0, max_brightness, 0, ..
\* after the brightness stored last (<<>>: nothing stored yet)
Alternates(last, stored) ==
    IF last = Level(0) THEN stored = Level(led.max_brightness) /\ stored # Level(0)
    ELSE IF last = <<>> THEN stored = Level(led.max_brightness)
    ELSE stored = Level(0)

\* a pulse write whose failure is ignored: the pulse goes on
PulseWriteIgnoringFailure(r, what, next) ==
    /\ ep_brightness' = r.brightness
    /\ pc' = next
    /\ app_result' = app_result
    /\ hist' = [hist EXCEPT
           !.cycle = IF r.result = "Ok" THEN Append(@, what) ELSE @,
           !.pulse_failed = @ \/ r.result # "Ok",
           !.begun_after = IF Cancelled /\ what = "on" THEN Bump(@) ELSE @,
           !.after_failure = IF hist.pulse_failed /\ what = "on" THEN Bump(@) ELSE @]
    /\ UNCHANGED <<parseVars, dutyVars, fnVars, ep_max, ep_active, ledVars, running, handler_set,
                   args, clock, break_cfg, pause_i, exit_status>>

\* led.on()? and led.off()? of blink(): the write r, then the sleep, or the
\* error returned through blink() and app()
PulseWrite(r, what, next) ==
    /\ ep_brightness' = r.brightness
    /\ IF r.result = "Ok"
       THEN pc' = next /\ app_result' = app_result /\ clock' = clock
       ELSE Return("Err") /\ clock' = NoClock
    /\ hist' = [hist EXCEPT
           !.last_write = IF r.result = "Ok" THEN r.brightness ELSE @,
           !.alternates = IF r.result = "Ok" THEN @ /\ Alternates(hist.last_write, r.brightness)
                          ELSE @,
           !.cycle = IF r.result = "Ok" THEN Append(@, what) ELSE <<>>,
           !.hour_pulses = IF r.result = "Ok" THEN @ ELSE 0,
           !.pulse_failed = @ \/ r.result # "Ok",
           !.begun_after = IF Cancelled /\ what = "on" THEN Bump(@) ELSE @,
           !.after_failure = IF hist.pulse_failed /\ what = "on" THEN Bump(@) ELSE @]
    /\ UNCHANGED <<parseVars, dutyVars, fnVars, ep_max, ep_active, ledVars, running, handler_set,
                   args, break_cfg, pause_i, exit_status>>

\* blink(): led.on()?;
AppBlinkOn(ok) ==
    /\ pc = "blink_on"
    /\ PulseWrite(SysfsLed_on(led, ok, ep_brightness), "on", "on_sleep")

\* a blink() that never turns the LED off again
AppBlinkOffMissing(ok) ==
    /\ pc = "blink_off"
    /\ pc' = "off_sleep"
    /\ hist' = [hist EXCEPT !.cycle = Append(@, "off")]
    /\ UNCHANGED <<parseVars, dutyVars, fnVars, sysVars, ledVars, running, handler_set, args,
                   clock, break_cfg, pause_i, app_result, exit_status>>

\* blink(): led.off()?;
AppBlinkOff(ok) ==
    /\ pc = "blink_off"
    /\ PulseWrite(SysfsLed_off(led, ok, ep_brightness), "off", "off_sleep")

\* thread::sleep(..) returns: of the on phase, the off phase, or a Break
AppSleep ==
    /\ pc \in {"on_sleep", "off_sleep", "break_sleep"}
    /\ pc' = IF pc = "on_sleep" THEN "blink_off" ELSE "sym"
    /\ UNCHANGED <<parseVars, dutyVars, fnVars, sysVars, ledVars, running, handler_set, args,
                   clock, break_cfg, pause_i, app_result, exit_status, hist>>

\* a pause loop that polls the flag only before its first slice
AppPausePollOnce ==
    /\ pc = "pause"
    /\ clock' = NoClock
    /\ IF pause_i >= break_cfg.repeats
       THEN pc' = "outer" /\ UNCHANGED <<app_result, hist>>
       ELSE IF ~running /\ pause_i = 0
            THEN Return("Ok") /\ hist' = Abandon(hist)
            ELSE /\ pc' = "pause_sleep"
                 /\ app_result' = app_result
                 /\ hist' = [hist EXCEPT
                        !.after_failure = IF hist.pulse_failed THEN Bump(@) ELSE @]
    /\ UNCHANGED <<parseVars, dutyVars, fnVars, sysVars, ledVars, running, handler_set, args,
                   break_cfg, pause_i, exit_status>>

\* for _ in 0..break_repeats { if !running.load(..) { break 'outer; } thread::sleep(..)
AppPause ==
    /\ pc = "pause"
    /\ clock' = NoClock
    /\ IF pause_i >= break_cfg.repeats
       THEN pc' = "outer" /\ UNCHANGED <<app_result, hist>>
       ELSE IF ~running
            THEN Return("Ok") /\ hist' = Abandon(hist)
            ELSE /\ pc' = "pause_sleep"
                 /\ app_result' = app_result
                 /\ hist' = [hist EXCEPT
                        !.after_failure = IF hist.pulse_failed THEN Bump(@) ELSE @]
    /\ UNCHANGED <<parseVars, dutyVars, fnVars, sysVars, ledVars, running, handler_set, args,
                   break_cfg, pause_i, exit_status>>

\* the thread::sleep(break_duration) of one pause slice returns
AppPauseSleep ==
    /\ pc = "pause_sleep"
    /\ pc' = "pause"
    /\ pause_i' = pause_i + 1
    /\ hist' = [hist EXCEPT !.slices_after = IF Cancelled THEN Bump(@) ELSE @]
    /\ UNCHANGED <<parseVars, dutyVars, fnVars, sysVars, ledVars, running, handler_set, args,
                   clock, break_cfg, app_result, exit_status>>

\* app() has returned app_result and Drop for SysfsLed runs. Its first
\* statement, self.set(self.old_brightness).unwrap(): a failed write panics,
\* the rest of drop does not run and the process ends with status 101
AppDrop(okb) ==
    /\ pc = "drop"
    /\ LET b == SysfsLed_set(led, led.old_brightness, okb, ep_brightness)
       IN  /\ ep_brightness' = b.brightness
           /\ IF b.result = "Ok"
              THEN /\ restore' = [brightness |-> "ok", trigger |-> "no", panicked |-> FALSE]
                   /\ pc' = "drop_trigger"
                   /\ led' = led
              ELSE /\ restore' = [brightness |-> "failed", trigger |-> "no", panicked |-> TRUE]
                   /\ pc' = "exit_101"
                   /\ led' = [led EXCEPT !.open = FALSE]
    /\ UNCHANGED <<parseVars, dutyVars, fnVars, ep_max, ep_active, pre, running, handler_set,
                   args, clock, break_cfg, pause_i, app_result, exit_status, hist>>

\* the second statement of drop, self.reset_trigger().unwrap(); app() has
\* then returned to main(), or the unwrap has panicked
AppDropTrigger(okt) ==
    /\ pc = "drop_trigger"
    /\ LET t == SysfsLed_reset_trigger(led, okt, ep_active)
       IN  /\ ep_active' = t.active
           /\ restore' = [restore EXCEPT
                  !.trigger = IF ~t.wrote THEN "no"
                              ELSE IF t.result = "Ok" THEN "ok" ELSE "failed",
                  !.panicked = t.result # "Ok"]
           /\ pc' = IF t.result # "Ok" THEN "exit_101"
                    ELSE IF app_result = "Ok" THEN "exit_0" ELSE "exit_1"
    /\ led' = [led EXCEPT !.open = FALSE]
    /\ UNCHANGED <<parseVars, dutyVars, fnVars, ep_brightness, ep_max, pre, running,
                   handler_set, args, clock, break_cfg, pause_i, app_result, exit_status, hist>>

\* the positions from which the process ends by itself: main() returns or
\* process::exit(0) is called, process::exit(1) is called, a panic unwinds
ExitPcs == {"exit_0", "exit_1", "exit_101"}

\* the process ends with the status of its position
AppExit ==
    /\ pc \in ExitPcs
    /\ pc' = "exited"
    /\ exit_status' = CASE pc = "exit_0" -> "0" [] pc = "exit_1" -> "1" [] OTHER -> "101"
    /\ UNCHANGED <<parseVars, dutyVars, fnVars, sysVars, ledVars, running, handler_set, args,
                   clock, break_cfg, pause_i, app_result, hist>>

\* the positions of a main thread that has left app()'s body for good
Leaving == {"drop", "drop_trigger", "exited"} \cup ExitPcs

\* a handler that toggles the flag
HandlerToggle ==
    /\ handler_set
    /\ pc # "exited"
    /\ running' = ~running
    /\ hist' = [hist EXCEPT !.cancel_pc = IF @ = "" THEN pc ELSE @]
    /\ UNCHANGED <<parseVars, dutyVars, fnVars, sysVars, ledVars, pc, handler_set, args, clock,
                   break_cfg, pause_i, app_result, exit_status>>

\* the operator's interrupt with the ctrlc handler installed:
\* running.store(false, Ordering::Relaxed)
Handler ==
    /\ handler_set
    /\ pc # "exited"
    /\ running' = FALSE
    /\ hist' = [hist EXCEPT !.cancel_pc = IF @ = "" THEN pc ELSE @]
    /\ UNCHANGED <<parseVars, dutyVars, fnVars, sysVars, ledVars, pc, handler_set, args, clock,
                   break_cfg, pause_i, app_result, exit_status>>

\* the operator's interrupt before ctrlc::set_handler has installed the
\* handler: the signal's default action ends the process at once
DefaultInterrupt ==
    /\ ~handler_set
    /\ pc # "exited"
    /\ pc' = "exited"
    /\ exit_status' = "SIGINT"
    /\ UNCHANGED <<parseVars, dutyVars, fnVars, sysVars, ledVars, running, handler_set, args,
                   clock, break_cfg, pause_i, app_result, hist>>

Next ==
    \/ \E help \in BOOLEAN, numbers_ok \in BOOLEAN, l \in ArgDuties, s \in ArgDuties,
          p \in PauseChoices, u \in BOOLEAN : AppArgs(help, numbers_ok, l, s, p, u)
    \/ \E f \in {"none"} \cup EarlyFailures : AppNew(f)
    \/ \E f \in {"none"} \cup LateFailures : AppNewBuild(f)
    \/ \E ok \in BOOLEAN : AppPrivDrop(ok)
    \/ \E ok \in BOOLEAN : AppSetHandler(ok)
    \/ \E h \in Hours, m \in Minutes : AppOuter(h, m)
    \/ AppSym
    \/ \E ok \in BOOLEAN : AppBlinkOn(ok)
    \/ \E ok \in BOOLEAN : AppBlinkOff(ok)
    \/ AppSleep
    \/ AppPause
    \/ AppPauseSleep
    \/ \E okb \in BOOLEAN : AppDrop(okb)
    \/ \E okt \in BOOLEAN : AppDropTrigger(okt)
    \/ AppExit
    \/ Handler
    \/ DefaultInterrupt

Spec == Init /\ [][Next]_vars

\* the steps of the runner, from the 'outer loop to the end of the process:
\* every sleep and every device write returns
Runner ==
    \/ \E h \in Hours, m \in Minutes : AppOuter(h, m)
    \/ AppSym
    \/ \E ok \in BOOLEAN : AppBlinkOn(ok)
    \/ \E ok \in BOOLEAN : AppBlinkOff(ok)
    \/ AppSleep
    \/ AppPause
    \/ AppPauseSleep
    \/ \E okb \in BOOLEAN : AppDrop(okb)
    \/ \E okt \in BOOLEAN : AppDropTrigger(okt)
    \/ AppExit

\* the process with a runner that is scheduled fairly; the operator need
\* never interrupt
SpecFair == Init /\ [][Next]_vars /\ WF_vars(Runner)

-----------------------------------------------------------------------------
(* SpecClock: the encoder applied to every time of day in both formats, as
   morseclock-cli collects it *)

AllMinutes == 0..59

InitClock ==
    /\ enc \in [hour : Hours, minute : AllMinutes, format : Formats, out : {<<>>}]
    /\ pz = NoPz
    /\ ParseIdle /\ DutyIdle /\ SysIdle /\ LedIdle /\ RunIdle

\* Clock::new(hour, minute, format).into_iter() .. .collect()
ClockCollect ==
    /\ enc.format \in Formats
    /\ enc.out = <<>>
    /\ enc' = [enc EXCEPT !.out = Encode(enc.hour, enc.minute, enc.format)]
    /\ UNCHANGED <<parseVars, dutyVars, pz, sysVars, ledVars, runVars>>

NextClock == ClockCollect

SpecClock == InitClock /\ [][NextClock]_vars

-----------------------------------------------------------------------------
(* SpecPause: approximate_pause_repeats applied to pause durations *)

MaxPause == 1500

\* every pause up to MaxPause ms, and some long ones: the first pauses with
\* more than SliceTarget slices, a minute, a day
PauseTargets == 0..MaxPause \cup {40200, 40399, 60000, 86400000}

InitPause ==
    /\ pz \in [target : PauseTargets, done : {FALSE}, result : {NoBreak}]
    /\ enc = NoEnc
    /\ ParseIdle /\ DutyIdle /\ SysIdle /\ LedIdle /\ RunIdle

\* let (break_duration, break_repeats) = approximate_pause_repeats(args.break_duration);
ApproximatePause ==
    /\ ~pz.done
    /\ pz' = [pz EXCEPT !.done = TRUE, !.result = approximate_pause_repeats(pz.target)]
    /\ UNCHANGED <<parseVars, dutyVars, enc, sysVars, ledVars, runVars>>

NextPause == ApproximatePause

SpecPause == InitPause /\ [][NextPause]_vars

-----------------------------------------------------------------------------
(* Claims *)

\* the SysfsLed of SpecLed was acquired by new and has gone out of scope
Released == pc = "lib_done" /\ hist.acquired

RoundTrip == ep_brightness = pre.brightness /\ ep_active = pre.active

\* C1: after new, any on/off/set calls and the release, the brightness and the
\* active trigger mode are what they were before new, for every brightness and
\* every active mode name.
C1_RoundTripAnyMode == Released => RoundTrip

\* C2: whenever the process has ended by itself after the device was acquired,
\* the restoration has been executed: the saved brightness written, and the
\* saved trigger mode written if there was one.
C2_RestorationNeverSkipped ==
    (pc = "exited" /\ hist.acquired /\ exit_status \in {"0", "1", "101"})
        => /\ restore.brightness # "no"
           /\ led.trigger.tag = "Some" => restore.trigger # "no"

\* C3: when the flag is cleared while the runner is in the inter-cycle pause,
\* at most one more pause slice finishes, no symbol action is begun, no cycle
\* is started, and the runner stays in the pause or on its way out.
C3_PauseCancelLatency ==
    hist.cancel_pc \in {"pause", "pause_sleep"}
        => /\ hist.slices_after <= 1
           /\ hist.begun_after = 0
           /\ hist.cycles_after = 0
           /\ pc \in {"pause", "pause_sleep", "outer"} \cup Leaving
           /\ hist.slices_after = 1 => hist.cancel_pc = "pause_sleep"

C3_Witness ==
    /\ hist.cancel_pc = "pause_sleep"
    /\ hist.slices_after = 1
    /\ break_cfg.repeats = 3
    /\ pause_i = 1
    /\ pc = "exited"

SymbolLoop == {"sym", "blink_on", "on_sleep", "blink_off", "off_sleep", "break_sleep"}

\* C4: once the flag is cleared at most one symbol action is begun, and only
\* the pulse whose poll came before the flag was cleared; no cycle is started,
\* and when the flag was cleared in the symbol loop no pause slice is slept.
C4_PolledBeforeEverySymbol ==
    Cancelled
        => /\ hist.begun_after <= 1
           /\ hist.begun_after = 1 => hist.cancel_pc = "blink_on"
           /\ hist.cycles_after = 0
           /\ hist.cancel_pc \in SymbolLoop => (hist.slices_after = 0 /\ pc # "pause_sleep")

C4_Witness ==
    /\ hist.cancel_pc = "blink_on"
    /\ hist.begun_after = 1
    /\ pc = "exited"
    /\ exit_status = "0"

\* C5: the flag is only ever cleared, and only once the handler is installed:
\* a step never takes it from cleared back to set, and the runner never goes
\* back from its way out (Stopping, Stopped) into the loop.
C5_FlagMonotonic ==
    [][/\ ~running => ~running'
       /\ (running /\ ~running') => handler_set
       /\ pc \in Leaving => pc' \in Leaving]_vars

C5_Witness ==
    /\ ~running
    /\ hist.cancel_pc = "on_sleep"
    /\ pc = "exited"
    /\ exit_status = "0"

\* C6: a release whose brightness restoration fails does not panic and still
\* attempts the trigger restoration; a failed trigger restoration does not
\* panic either.
C6_ReleaseToleratesFailures ==
    (pc = "lib_done" /\ hist.acquired)
        => /\ ~restore.panicked
           /\ (restore.brightness = "failed" /\ led.trigger.tag = "Some")
                  => restore.trigger # "no"

\* C7: once an on-write or off-write of a pulse has failed, the runner begins
\* no further symbol action, pause slice or cycle: app() returns the error and
\* the process ends with a non-zero status.
C7_WriteFailureFatal ==
    hist.pulse_failed
        => /\ pc \in Leaving
           /\ app_result = "Err"
           /\ hist.after_failure = 0
           /\ pc = "exited" => exit_status \in {"1", "101"}

C7_Witness ==
    /\ hist.pulse_failed
    /\ pc = "exited"
    /\ exit_status = "1"
    /\ restore.brightness = "ok"

\* C8: for every input text parse_trigger returns what the reference does: the
\* text between the first "[" and the first "]" after it, and no mode when
\* that text is "none", when there is no "[", or when no "]" follows.
C8_AgreesWithReference ==
    p_result # NotRun => p_result = RefTrigger(p_input)

\* C9: DutyCycle::from_str succeeds exactly when the value v is a number with
\* 0 < v <= 1, and fails with InvalidDutyCycle for every other float.
C9_DutyRange ==
    d_result # DutyNotRun
        => /\ d_result.tag = "Ok"
                <=> (d_input.kind = "decimal" /\ 0 < d_input.milli /\ d_input.milli <= 1000)
           /\ d_result.tag = "Ok"
                => (d_result.value.kind = "finite" /\ 0 < d_result.value.milli
                    /\ d_result.value.milli <= 1000)
           /\ (d_input.kind # "garbage" /\ d_result.tag # "Ok")
                => d_result.tag = "InvalidDutyCycle"

\* C10: a cycle that ran to its pause has executed exactly one Break, a sleep
\* with no device write, after the on/off writes of all pulses of the hour
\* group and before those of the ten pulses of the minute group; no cycle
\* begins or ends with a Break.
C10_OneBreakPerCycle ==
    LET log    == hist.cycle
        breaks == {i \in 1..Len(log) : log[i] = "Break"}
        b      == 2 * hist.hour_pulses + 1
    IN  /\ log # <<>> => log[1] = "on"
        /\ Cardinality(breaks) <= 1
        /\ pc \in {"pause", "pause_sleep"}
               => /\ breaks = {b}
                  /\ hist.hour_pulses \in {5, 10}
                  /\ Len(log) = b + 20
                  /\ \A i \in 1..Len(log) : i # b =>
                        log[i] = (IF (IF i < b THEN i ELSE i - b) % 2 = 1 THEN "on" ELSE "off")

C10_Witness ==
    /\ pc = "pause_sleep"
    /\ hist.hour_pulses = 10
    /\ Len(hist.cycle) = 41
    /\ hist.cycle[21] = "Break"
    /\ hist.cycle[41] = "off"

\* International Morse code of the digits 0..9, as a table
MorseTable ==
    << <<"Long", "Long", "Long", "Long", "Long">>,
       <<"Short", "Long", "Long", "Long", "Long">>,
       <<"Short", "Short", "Long", "Long", "Long">>,
       <<"Short", "Short", "Short", "Long", "Long">>,
       <<"Short", "Short", "Short", "Short", "Long">>,
       <<"Short", "Short", "Short", "Short", "Short">>,
       <<"Long", "Short", "Short", "Short", "Short">>,
       <<"Long", "Long", "Short", "Short", "Short">>,
       <<"Long", "Long", "Long", "Short", "Short">>,
       <<"Long", "Long", "Long", "Long", "Short">> >>

\* the digit a group of five pulses stands for, -1 when it is no digit
MorseValue(g) ==
    IF \E d \in 0..9 : MorseTable[d + 1] = g
    THEN CHOOSE d \in 0..9 : MorseTable[d + 1] = g
    ELSE -1

\* the decimal number a run of pulse groups stands for, -1 when it is none
RECURSIVE MorseNumber(_)
MorseNumber(p) ==
    IF Len(p) % 5 # 0 THEN -1
    ELSE IF p = <<>> THEN 0
    ELSE LET n    == Len(p)
             high == MorseNumber(SubSeq(p, 1, n - 5))
             low  == MorseValue(SubSeq(p, n - 4, n))
         IN  IF high < 0 \/ low < 0 THEN -1 ELSE 10 * high + low

\* the hour group of a collected sequence: the pulses before its first Break
HourGroup(out)   == SubSeq(out, 1, FindChar(out, "Break") - 1)
MinuteGroup(out) == From(out, FindChar(out, "Break") + 1)

\* C11: in the 12-hour format the hour shown for h in 0..23 is
\* ((h + 11) % 12) + 1, a number in 1..12, so 0 and 12 both show 12, and h
\* and h + 12 give the same symbols for the same minute; the hour group has
\* five pulses per digit shown and no leading zero, and the minute group has
\* exactly ten pulses.
C11_TwelveHourMapping ==
    (enc.format = "Hour12" /\ enc.out # <<>>) =>
        LET h     == enc.hour
            hours == HourGroup(enc.out)
            shown == MorseNumber(hours)
            other == IF h < 12 THEN h + 12 ELSE h - 12
        IN  /\ FindChar(enc.out, "Break") > 0
            /\ shown = ((h + 11) % 12) + 1
            /\ shown \in 1..12
            /\ (h \in {0, 12}) => shown = 12
            /\ Len(hours) = 5 * (IF shown >= 10 THEN 2 ELSE 1)
            /\ MorseValue(SubSeq(hours, 1, 5)) # 0
            /\ Len(MinuteGroup(enc.out)) = 10
            /\ MorseNumber(MinuteGroup(enc.out)) = enc.minute
            /\ enc.out = Encode(other, enc.minute, "Hour12")

\* midnight at five past, collected in the 12-hour format: 12 and 05
C11_Witness ==
    /\ enc.format = "Hour12" /\ enc.hour = 0 /\ enc.minute = 5
    /\ Len(enc.out) = 21
    /\ MorseNumber(HourGroup(enc.out)) = 12

\* C12: when a duty cycle is invalid or a numeric argument does not parse, the
\* process exits with a non-zero status before the device is acquired: new
\* was never entered, so no endpoint was read or written, and the runner
\* loop was never entered.
C12_ConfigErrorsFirst ==
    hist.bad_config =>
        /\ pc \in {"exit_1", "exited"} /\ exit_status \in {NotExited, "1", "SIGINT"}
        /\ pc = "exited" <=> exit_status # NotExited
        /\ ~pre.taken /\ ~hist.acquired /\ led = NoLed /\ restore = NotRestored
        /\ clock = NoClock /\ hist.cycle = <<>>

\* C13: SysfsLed::new writes "none" to the trigger last, after brightness,
\* trigger and max_brightness have been read and accepted as numbers and both
\* handles are open; so a new that fails (an endpoint that cannot be read, a
\* brightness or max_brightness that is no number, a brightness handle that
\* cannot be opened) leaves the trigger mode that was active before it.
C13_FailedAcquireKeepsTrigger ==
    (pre.taken /\ ~hist.acquired /\ app_result = "Err") => ep_active = pre.active

\* C14: an interrupt delivered at any moment after the device was acquired,
\* also before the first poll and before the main loop, does nothing but
\* write the cancellation flag: the process is never ended by the interrupt
\* itself, and it never ends after acquisition without Drop having run.
C14_InterruptOnlySetsFlag ==
    hist.acquired =>
        /\ exit_status # "SIGINT"
        /\ pc = "exited" => restore.brightness # "no"

\* the positions of the main thread inside the 'outer loop
LoopPcs == {"outer", "sym", "blink_on", "on_sleep", "blink_off", "off_sleep",
            "break_sleep", "pause", "pause_sleep"}

\* the process has ended and the device is released: Drop for SysfsLed has
\* written the saved brightness and, when new had saved one, the saved trigger
\* mode, and neither write failed
Stopped ==
    /\ pc = "exited" /\ ~led.open
    /\ restore.brightness = "ok" /\ ~restore.panicked
    /\ restore.trigger = (IF led.trigger.tag = "Some" THEN "ok" ELSE "no")

\* while the flag is set the main thread leaves the loop only on a failed write
NeverStopsByItself ==
    [][(running /\ running' /\ pc \in LoopPcs /\ pc' \notin LoopPcs)
          => (hist'.pulse_failed /\ app_result' = "Err")]_vars

\* with the flag never cleared and no write failing, a runner that has entered
\* the loop starts a new cycle again and again
KeepsStartingCycles ==
    (<>(pc = "outer") /\ [](running /\ ~hist.pulse_failed))
        => []<>(pc = "sym" /\ clock # <<>> /\ hist.cycle = <<>>)

\* C15: under a fairly scheduled main thread, once the flag is cleared the
\* runner eventually stops, app() has returned Ok and the device is released;
\* while the flag stays set and no write fails, the runner never stops by
\* itself and keeps starting new cycles.
C15_StopsSuccessfully ==
    /\ (~running) ~> (Stopped /\ app_result = "Ok" /\ exit_status = "0")
    /\ NeverStopsByItself
    /\ KeepsStartingCycles

\* C16 as stated: for every pause P the slice d that approximate_pause_repeats
\* returns is P when P <= 200 and at most 200 when P > 200.
C16_SliceAtMostTarget ==
    pz.done =>
        /\ pz.target <= SliceTarget => pz.result.duration = pz.target
        /\ pz.target > SliceTarget => pz.result.duration <= SliceTarget

\* C16, amended: the slice d is P when P <= 200, and when P > 200 it is at
\* least 200 and less than 400.
C16_SliceBelowTwiceTarget ==
    pz.done =>
        /\ pz.target <= SliceTarget => pz.result.duration = pz.target
        /\ pz.target > SliceTarget =>
              /\ pz.result.duration >= SliceTarget
              /\ pz.result.duration < 2 * SliceTarget

\* a pause of 399 ms is slept in one slice of 399 ms
C16_Witness ==
    pz.done /\ pz.target = 2 * SliceTarget - 1 /\ pz.result.duration = 2 * SliceTarget - 1

\* C17: for every pause P >= 0 approximate_pause_repeats returns (d, n) with
\* n >= 1, n = P / 200 when P > 200, and 0 <= P - n * d < n; the two divisors,
\* the first estimate and the slice, are never zero.
C17_SlicesCoverPause ==
    pz.done =>
        LET P == pz.target
            d == pz.result.duration
            n == pz.result.repeats
        IN  /\ n >= 1
            /\ P > SliceTarget => (n = P \div SliceTarget /\ P \div SliceTarget # 0 /\ d # 0)
            /\ 0 <= P - n * d
            /\ P - n * d < n

\* a pause of 700 ms is slept as 3 slices of 233 ms, 1 ms short
C17_Witness ==
    pz.done /\ pz.target = 700 /\ pz.result = [duration |-> 233, repeats |-> 3]

\* C18: between acquisition and release the brightness writes of the runner
\* alternate max_brightness, 0, max_brightness, 0, .. and start with
\* max_brightness; as long as no write has failed the brightness attribute
\* holds max_brightness during the on phase of a pulse and 0 during its off
\* phase, during every Break sleep and during every slice of the pause.
C18_DarkOutsideOnPhase ==
    /\ hist.alternates
    /\ (led.open /\ ~hist.pulse_failed) =>
          /\ pc = "on_sleep" => ep_brightness = Level(led.max_brightness)
          /\ pc \in {"off_sleep", "break_sleep", "pause", "pause_sleep"}
                => (ep_brightness = Level(0) /\ hist.last_write = Level(0))
          /\ pc = "blink_on" => hist.last_write \in {<<>>, Level(0)}

\* the Break of a cycle with a two-digit hour: twenty writes so far, the last
\* one a 0, and the LED dark
C18_Witness ==
    /\ pc = "break_sleep" /\ led.open /\ ~hist.pulse_failed
    /\ Len(hist.cycle) = 21
    /\ hist.last_write = Level(0) /\ ep_brightness = Level(0)
    /\ hist.alternates

\* C19: parse_trigger is total and well-formed. For every input it returns
\* without panicking; for the empty text, a text with no "[", an unclosed
\* "[", an empty "[]" and a bracketed token with a character that is no
\* letter, digit or hyphen it yields no mode; and a mode it yields is a
\* non-empty text of letters, digits and hyphens other than "none" that
\* stands right after the first "[" and right before a "]".
C19_TotalAndWellFormed ==
    p_result # NotRun =>
        LET pos   == FindChar(p_input, "[")
            after == IF pos = 0 THEN <<>> ELSE From(p_input, pos + 1)
            close == FindChar(after, "]")
            tok   == IF close = 0 THEN after ELSE SubSeq(after, 1, close - 1)
            mode  == p_result.val
        IN  /\ p_result.tag # "Panic"
            /\ (pos = 0 \/ close = 0 \/ tok = <<>>
                    \/ \E i \in 1..Len(tok) : ~IsTriggerChar(tok[i]))
                  => p_result = None
            /\ p_result.tag = "Some" =>
                  /\ mode # <<>> /\ mode # T_none
                  /\ \A i \in 1..Len(mode) : IsTriggerChar(mode[i])
                  /\ SubSeq(after, 1, Len(mode)) = mode
                  /\ Len(after) > Len(mode) /\ after[Len(mode) + 1] = "]"

\* the runner has sampled the time for a cycle and taken no symbol of it yet
CycleStart == pc = "sym" /\ hist.sampled # <<>>

\* C20: each cycle encodes the time sampled for it in the configured format,
\* the hour as it is (0..23) when Hour24 is configured and reduced to 1..12
\* when Hour12 is, the same format in every cycle of a run.
C20_EncodesConfiguredFormat ==
    CycleStart =>
        /\ clock = Encode(hist.sampled[1], hist.sampled[2], hist.format)
        /\ MorseNumber(HourGroup(clock))
              = (IF hist.format = "Hour24" THEN hist.sampled[1]
                 ELSE ((hist.sampled[1] + 11) % 12) + 1)

=============================================================================
